---- MODULE Spec2Model ----
(***************************************************************************)
(* A model of the classics-server book RAG application:                    *)
(*   create_search_index.py  chunking, document building, index creation   *)
(*   book_rag_cli.py         index listing, retrieval, response generation *)
(*   app.py                  the HTTP endpoints and the background task    *)
(* Strings whose characters the code inspects (texts, queries, file and    *)
(* index names) are sequences of one-character strings.                    *)
(***************************************************************************)
EXTENDS Integers, Sequences, FiniteSets, TLC

VARIABLES
    \* chunk_text(text, chunk_size) called on its own
    text,           \* the argument text
    chunk_size,     \* the argument chunk_size
    chunks,         \* the returned list
    chunk_pc,       \* "call" before the call, "done" after it
    \* the server: app.py and the background indexing tasks
    environ,        \* os.environ: the variables that are set
    assets,         \* the files saved under ASSETS_DIR: path and content
    tasks,          \* the background tasks, in the order they were added
    overlapped,     \* history: two tasks have run at the same time
    responses,      \* the HTTP responses sent, with the request of each
    \* the external search service
    indexes,        \* index name -> the documents of that index
    used_ids,       \* the identifiers uuid4 has returned so far
    \* one query: search_books (app.py), main (book_rag_cli.py), or a call
    \* of generate_rag_response
    request,        \* the caller and its arguments
    pc,             \* where the handler is
    available,      \* what get_available_indexes returned
    active_indexes, \* the indexes to search
    searched,       \* the indexes search_index was called for, in order
    calls,          \* the calls made to the search service
    returns,        \* what each call of search_index returned or raised
    all_contexts,   \* the documents retrieved so far
    chat_calls,     \* the calls made to the chat-completion service
    response,       \* the handler's answer
    listed,         \* the index names as the service last listed them
    \* the interactive session: interactive_cli (book_rag_cli.py)
    target_indexes, \* the indexes the current query is to search
    inputs          \* the lines input() has returned

chunkVars == <<text, chunk_size, chunks, chunk_pc>>
serverVars == <<environ, assets, tasks, overlapped, responses>>
serviceVars == <<indexes, used_ids>>
searchVars == <<request, pc, available, active_indexes, searched, calls,
                returns, all_contexts, chat_calls, response, listed,
                target_indexes, inputs>>
vars == <<text, chunk_size, chunks, chunk_pc, environ, assets, tasks,
          overlapped, responses, indexes, used_ids, request, pc, available,
          active_indexes, searched, calls, returns, all_contexts, chat_calls,
          response,
         listed, target_indexes, inputs>>

(***************************************************************************)
(* Characters and string helpers                                           *)
(***************************************************************************)
NL == "\n"
SP == " "

\* The characters str.strip() removes (of those the model's texts use).
Whitespace == {" ", "\n", "\t", "\r"}

\* c repeated n times.
Rep(c, n) == [i \in 1..n |-> c]

Min(S) == CHOOSE m \in S : \A o \in S : m <= o
Max(S) == CHOOSE m \in S : \A o \in S : m >= o

\* All sequences over S of length at most n.
SeqsUpTo(S, n) == UNION {[1..k -> S] : k \in 0..n}

\* Python's None and the empty string, both falsy: the code tests
\* index_name only with "if not index_name".
None == <<>>

UpperLetters ==
    <<"A", "B", "C", "D", "E", "F", "G", "H", "I", "J", "K", "L", "M",
      "N", "O", "P", "Q", "R", "S", "T", "U", "V", "W", "X", "Y", "Z">>
LowerLetters ==
    <<"a", "b", "c", "d", "e", "f", "g", "h", "i", "j", "k", "l", "m",
      "n", "o", "p", "q", "r", "s", "t", "u", "v", "w", "x", "y", "z">>
Digits == <<"0", "1", "2", "3", "4", "5", "6", "7", "8", "9">>

IsUpper(c) == \E i \in 1..26 : UpperLetters[i] = c
IsLower(c) == \E i \in 1..26 : LowerLetters[i] = c
IsCased(c) == IsUpper(c) \/ IsLower(c)
LowerChar(c) ==
    IF IsUpper(c)
    THEN LowerLetters[CHOOSE i \in 1..26 : UpperLetters[i] = c]
    ELSE c
UpperChar(c) ==
    IF IsLower(c)
    THEN UpperLetters[CHOOSE i \in 1..26 : LowerLetters[i] = c]
    ELSE c

\* str.lower()
lower(s) == [i \in 1..Len(s) |-> LowerChar(s[i])]

\* str.title(): a cased character is upper-cased after an uncased one (or
\* at the start) and lower-cased after a cased one.
title(s) ==
    [i \in 1..Len(s) |->
        IF i > 1 /\ IsCased(s[i - 1]) THEN LowerChar(s[i]) ELSE UpperChar(s[i])]

\* s.startswith(p), s.endswith(p), p in s
startswith(s, p) == Len(p) <= Len(s) /\ SubSeq(s, 1, Len(p)) = p
endswith(s, p) ==
    Len(p) <= Len(s) /\ SubSeq(s, Len(s) - Len(p) + 1, Len(s)) = p
contains(s, p) ==
    \E i \in 0..(Len(s) - Len(p)) : SubSeq(s, i + 1, i + Len(p)) = p

\* s.replace(old, new) for a non-empty old: every occurrence, left to right,
\* not overlapping.
RECURSIVE replace_from(_, _, _, _)
replace_from(s, i, old, new) ==
    IF i + Len(old) - 1 > Len(s) THEN SubSeq(s, i, Len(s))
    ELSE IF SubSeq(s, i, i + Len(old) - 1) = old
         THEN new \o replace_from(s, i + Len(old), old, new)
         ELSE <<s[i]>> \o replace_from(s, i + 1, old, new)

replace(s, old, new) == replace_from(s, 1, old, new)

\* os.path.basename(p): what follows the last "/".
basename(p) ==
    LET slashes == {i \in 1..Len(p) : p[i] = "/"}
    IN  IF slashes = {} THEN p ELSE SubSeq(p, Max(slashes) + 1, Len(p))

\* str(n) for a natural number n.
RECURSIVE str(_)
str(n) ==
    IF n < 10 THEN <<Digits[n + 1]>>
    ELSE str(n \div 10) \o <<Digits[(n % 10) + 1]>>

\* ".txt"
DotTxt == <<".", "t", "x", "t">>
\* "classic-"
ClassicPrefix == <<"c", "l", "a", "s", "s", "i", "c", "-">>
\* "books"
BooksPrefix == <<"b", "o", "o", "k", "s">>
\* "classic"
Classic == <<"c", "l", "a", "s", "s", "i", "c">>

(***************************************************************************)
(* create_search_index.py: chunk_text                                      *)
(***************************************************************************)
\* The default of chunk_text's chunk_size parameter.
DefaultChunkSize == 500

\* re: where the leftmost match of \n{2,} at or after position p starts
\* (0 when there is none).
MatchStart(s, p) ==
    LET starts == {i \in p..(Len(s) - 1) : s[i] = NL /\ s[i + 1] = NL}
    IN  IF starts = {} THEN 0 ELSE Min(starts)

\* re: the quantifier {2,} is greedy, the match that starts at i runs to the
\* last newline of the run.
MatchEnd(s, i) ==
    Max({j \in i..Len(s) : \A k \in i..j : s[k] = NL})

\* re.split(r'\n{2,}', s), scanning from position p: the pieces between the
\* matches, the empty pieces before a leading and after a trailing match
\* included.
RECURSIVE re_split(_, _)
re_split(s, p) ==
    LET i == MatchStart(s, p)
    IN  IF i = 0
        THEN <<SubSeq(s, p, Len(s))>>
        ELSE <<SubSeq(s, p, i - 1)>> \o re_split(s, MatchEnd(s, i) + 1)

\* str.lstrip(): drop leading whitespace.
RECURSIVE lstrip(_)
lstrip(s) ==
    IF s # <<>> /\ Head(s) \in Whitespace THEN lstrip(Tail(s)) ELSE s

\* str.rstrip(): drop trailing whitespace.
RECURSIVE rstrip(_)
rstrip(s) ==
    IF s # <<>> /\ s[Len(s)] \in Whitespace
    THEN rstrip(SubSeq(s, 1, Len(s) - 1))
    ELSE s

\* str.strip()
strip(s) == rstrip(lstrip(s))

\* The mutant of chunk_text: the length test is >= instead of >.
chunk_text_ge(t, size) ==
    LET paragraphs == re_split(t, 1)
        kept == SelectSeq(paragraphs, LAMBDA p : Len(strip(p)) >= size)
    IN  [i \in 1..Len(kept) |-> strip(kept[i])]

\* [p.strip() for p in re.split(r'\n{2,}', text) if len(p.strip()) > chunk_size]
chunk_text(t, size) ==
    LET paragraphs == re_split(t, 1)
        kept == SelectSeq(paragraphs, LAMBDA p : Len(strip(p)) > size)
    IN  [i \in 1..Len(kept) |-> strip(kept[i])]

(***************************************************************************)
(* The files that are uploaded, and the deployment's settings              *)
(***************************************************************************)
\* "moby dick.txt"
MobyDickTxt ==
    <<"m", "o", "b", "y", " ", "d", "i", "c", "k", ".", "t", "x", "t">>
\* "Emma.txt"
EmmaTxt == <<"E", "m", "m", "a", ".", "t", "x", "t">>
\* "Frankenstein.txt"
FrankensteinTxt ==
    <<"F", "r", "a", "n", "k", "e", "n", "s", "t", "e", "i", "n", ".", "t",
      "x", "t">>
\* "You will rejoice to hear"
Rejoice ==
    <<"Y", "o", "u", " ", "w", "i", "l", "l", " ", "r", "e", "j", "o", "i",
      "c", "e", " ", "t", "o", " ", "h", "e", "a", "r">>
\* "notes.pdf"
NotesPdf == <<"n", "o", "t", "e", "s", ".", "p", "d", "f">>
\* "Call me Ishmael."
Ishmael ==
    <<"C", "a", "l", "l", " ", "m", "e", " ", "I", "s", "h", "m", "a", "e",
      "l", ".">>
\* "THE END"
TheEnd == <<"T", "H", "E", " ", "E", "N", "D">>

\* The text of each uploaded file.  "moby dick.txt" has two paragraphs of
\* 501 characters (the first opens with "Call me Ishmael.") and two that
\* chunk_text drops: one of exactly 500 characters and a short one.
\* "Emma.txt" has a short title line and one paragraph of 501 characters.
FileText(filename) ==
    CASE filename = MobyDickTxt ->
            Ishmael \o Rep("a", 485) \o <<NL, NL>> \o Rep("b", 501)
                \o <<NL, NL, NL>> \o Rep("c", 500) \o <<NL, NL>> \o TheEnd
      [] filename = EmmaTxt ->
            <<"E", "M", "M", "A", NL, NL>> \o Rep("e", 501) \o <<NL>>
      [] filename = FrankensteinTxt ->
            Rejoice \o Rep("f", 500) \o <<NL>>
      [] OTHER -> <<"%", "P", "D", "F">>

FileNames == {MobyDickTxt, EmmaTxt, NotesPdf}

\* "python/assets"
ASSETS_DIR ==
    <<"p", "y", "t", "h", "o", "n", "/", "a", "s", "s", "e", "t", "s">>
\* "classic-frankenstein"
ClassicFrankenstein ==
    <<"c", "l", "a", "s", "s", "i", "c", "-", "f", "r", "a", "n", "k", "e",
      "n", "s", "t", "e", "i", "n">>
\* "books-emma"
BooksEmma == <<"b", "o", "o", "k", "s", "-", "e", "m", "m", "a">>
\* "classic-moby-dick"
ClassicMobyDick ==
    <<"c", "l", "a", "s", "s", "i", "c", "-", "m", "o", "b", "y", "-", "d",
      "i", "c", "k">>

\* os.environ.get(key, default)
environ_get(key, default) ==
    IF key \in DOMAIN environ THEN environ[key] ELSE default

\* No query is being handled.
\* No request is being handled.
NoRequest == [caller |-> "none", query |-> <<>>, index_name |-> <<>>,
              limit |-> 0, personality |-> ""]

\* No response has been produced.
NoResponse == [kind |-> "none", status_code |-> 0, results |-> <<>>,
               text |-> "", indexes_searched |-> <<>>, detail |-> ""]

SearchIdle ==
    /\ request = NoRequest
    /\ pc = "done"
    /\ available = <<>>
    /\ active_indexes = <<>>
    /\ searched = <<>>
    /\ calls = <<>>
    /\ returns = <<>>
    /\ all_contexts = <<>>
    /\ chat_calls = <<>>
    /\ response = NoResponse
    /\ listed = <<>>
    /\ target_indexes = <<>>
    /\ inputs = <<>>

(***************************************************************************)
(* The external search service: index CRUD and document upload             *)
(***************************************************************************)
\* The mutant of delete_index: the index is left as it is.
delete_index_kept(idx, name) == idx

\* SearchIndexClient.delete_index(name) on a service holding idx: the index
\* and its documents are gone.
delete_index(idx, name) == [n \in (DOMAIN idx) \ {name} |-> idx[n]]

\* SearchIndexClient.create_index(definition): a new, empty index.
create_index(idx, name) ==
    [n \in (DOMAIN idx) \cup {name} |-> IF n = name THEN {} ELSE idx[n]]

\* SearchClient.upload_documents(docs): each document is inserted, or
\* replaces the document of the same key.
upload_documents(idx, name, docs) ==
    [idx EXCEPT ![name] =
        {d \in @ : \A e \in docs : e.id # d.id} \cup docs]

ServiceIdle ==
    /\ indexes = <<>>
    /\ used_ids = {}

(***************************************************************************)
(* create_search_index.py: create_docs_from_txt, create_index_from_txt     *)
(***************************************************************************)
\* The book title create_docs_from_txt derives from the path.
book_title(path) == title(replace(basename(path), DotTxt, <<>>))

\* The document built for chunk number i (0-based, as enumerate counts)
\* with identifier id.
Doc(path, i, chunk, id) ==
    [id |-> id,
     content |-> chunk,
     filepath |-> <<"a", "s", "s", "e", "t", "s", "/">> \o basename(path),
     title |-> book_title(path)
                \o <<" ", "-", " ", "C", "h", "u", "n", "k", " ">> \o str(i + 1),
     url |-> <<"/", "b", "o", "o", "k", "s", "/">>
                \o replace(lower(book_title(path)), <<" ">>, <<"-">>)
                \o <<"#", "c", "h", "u", "n", "k", "-">> \o str(i + 1),
     contentVector |-> "embedding"]

\* create_docs_from_txt when no embedding call fails and uuid4 returns
\* ids[1], ids[2], ...
create_docs_from_txt(file_text, path, ids) ==
    LET cs == chunk_text(file_text, DefaultChunkSize)
    IN  [i \in 1..Len(cs) |-> Doc(path, i - 1, cs[i], ids[i])]

\* open(path).read(): the text of the saved file at path.
ReadFile(path) == FileText((CHOOSE f \in assets : f.path = path).file)

\* chunk_text(text) of each file's text, with the default chunk_size.
FileChunks ==
    [f \in FileNames |-> chunk_text(FileText(f), DefaultChunkSize)]

\* create_docs_from_txt: text = f.read(); chunks = chunk_text(text)
ReadChunks(path) == FileChunks[(CHOOSE f \in assets : f.path = path).file]

\* A background task: process_file_in_background(file_path, index_name),
\* which runs create_index_from_txt.  pc is the call the task makes next:
\*   "delete"  index_client.delete_index        (its exception is ignored)
\*   "create"  index_client.create_index, then the file is read and chunked
\*             (the chunks are a function of the file and are not stored)
\*   "embed"   embeddings.embed for chunk number Len(items)
\*   "upload"  search_client.upload_documents
\*   "done"    logged "Successfully processed"
\*   "failed"  logged "Error processing file"
NewTask(file_path, index_name) ==
    [file_path |-> file_path, index_name |-> index_name, pc |-> "delete",
     deleted |-> "", items |-> <<>>, error |-> ""]

\* The mutant of log_error: create_index_from_txt is run again.
log_error_retry(task, result) ==
    [task EXCEPT !.pc = "delete", !.items = <<>>, !.error = result]

\* process_file_in_background: except Exception as e: logger.error(...).
\* The task ends; nothing is raised further and nothing is run again.
log_error(task, result) == [task EXCEPT !.pc = "failed", !.error = result]

Running == {"create", "embed", "upload"}
Finished == {"done", "failed"}

\* Another task is between its first and its last call.
OthersRunning(t) == \E u \in 1..Len(tasks) : u # t /\ tasks[u].pc \in Running

\* The outcomes of one call to the service: it succeeds, or it raises
\* because the service fails ("service_error"); a call on a missing index
\* raises "not_found", a create of an existing one raises "exists".
Outcomes == {"ok", "service_error"}

\* The mutant of TaskDelete: an exception of delete_index is not caught.
TaskDeleteRaises(t, outcome) ==
    /\ tasks[t].pc = "delete"
    /\ LET name == tasks[t].index_name
           result == IF outcome # "ok" THEN outcome
                     ELSE IF name \notin DOMAIN indexes THEN "not_found"
                     ELSE "ok"
       IN  IF result = "ok"
           THEN /\ indexes' = delete_index(indexes, name)
                /\ tasks' = [tasks EXCEPT ![t].pc = "create",
                                          ![t].deleted = result]
           ELSE /\ indexes' = indexes
                /\ tasks' = [tasks EXCEPT ![t] = log_error(@, result)]
    /\ overlapped' = (overlapped \/ OthersRunning(t))
    /\ UNCHANGED <<environ, assets, responses, used_ids, chunkVars, searchVars>>

\* The mutant of TaskDelete: the index is not deleted.
TaskDeleteSkipped(t, outcome) ==
    /\ tasks[t].pc = "delete"
    /\ indexes' = indexes
    /\ tasks' = [tasks EXCEPT ![t].pc = "create", ![t].deleted = "not_found"]
    /\ overlapped' = (overlapped \/ OthersRunning(t))
    /\ UNCHANGED <<environ, assets, responses, used_ids, chunkVars, searchVars>>

\* create_index_from_txt: try: index_client.delete_index(index_name)
\*                         except Exception: pass
TaskDelete(t, outcome) ==
    /\ tasks[t].pc = "delete"
    /\ LET name == tasks[t].index_name
           result == IF outcome # "ok" THEN outcome
                     ELSE IF name \notin DOMAIN indexes THEN "not_found"
                     ELSE "ok"
       IN  /\ indexes' = IF result = "ok" THEN delete_index(indexes, name)
                         ELSE indexes
           /\ tasks' = [tasks EXCEPT ![t].pc = "create", ![t].deleted = result]
    /\ overlapped' = (overlapped \/ OthersRunning(t))
    /\ UNCHANGED <<environ, assets, responses, used_ids, chunkVars, searchVars>>

\* index_client.create_index(index_definition); on success the file is read
\* and chunked (create_docs_from_txt up to its loop).  An exception leaves
\* create_index_from_txt and is logged by process_file_in_background.
TaskCreate(t, outcome) ==
    /\ tasks[t].pc = "create"
    /\ LET name == tasks[t].index_name
           result == IF outcome # "ok" THEN outcome
                     ELSE IF name \in DOMAIN indexes THEN "exists"
                     ELSE "ok"
           cs == ReadChunks(tasks[t].file_path)
       IN  IF result = "ok"
           THEN /\ indexes' = create_index(indexes, name)
                /\ tasks' = [tasks EXCEPT
                       ![t].pc = IF cs = <<>> THEN "upload" ELSE "embed"]
           ELSE /\ indexes' = indexes
                /\ tasks' = [tasks EXCEPT ![t] = log_error(@, result)]
    /\ overlapped' = (overlapped \/ OthersRunning(t))
    /\ UNCHANGED <<environ, assets, responses, used_ids, chunkVars, searchVars>>

\* The mutant of TaskEmbed: a failed embedding ends the loop, and the
\* documents built so far are uploaded.
TaskEmbedPartial(t, outcome, id) ==
    /\ tasks[t].pc = "embed"
    /\ id \notin used_ids
    /\ LET i == Len(tasks[t].items)
           cs == ReadChunks(tasks[t].file_path)
           doc == Doc(tasks[t].file_path, i, cs[i + 1], id)
       IN  IF outcome = "ok"
           THEN /\ tasks' = [tasks EXCEPT
                       ![t].items = Append(@, doc),
                       ![t].pc = IF i + 1 = Len(cs)
                                 THEN "upload" ELSE "embed"]
                /\ used_ids' = used_ids \cup {id}
           ELSE /\ tasks' = [tasks EXCEPT ![t].pc = "upload"]
                /\ used_ids' = used_ids
    /\ overlapped' = (overlapped \/ OthersRunning(t))
    /\ UNCHANGED <<environ, assets, responses, indexes, chunkVars, searchVars>>

\* One turn of create_docs_from_txt's loop: embeddings.embed(chunk), then
\* the document with a fresh uuid4 identifier is appended to items.
TaskEmbed(t, outcome, id) ==
    /\ tasks[t].pc = "embed"
    /\ id \notin used_ids
    /\ LET i == Len(tasks[t].items)
           cs == ReadChunks(tasks[t].file_path)
           doc == Doc(tasks[t].file_path, i, cs[i + 1], id)
       IN  IF outcome = "ok"
           THEN /\ tasks' = [tasks EXCEPT
                       ![t].items = Append(@, doc),
                       ![t].pc = IF i + 1 = Len(cs)
                                 THEN "upload" ELSE "embed"]
                /\ used_ids' = used_ids \cup {id}
           ELSE /\ tasks' = [tasks EXCEPT ![t] = log_error(@, outcome)]
                /\ used_ids' = used_ids
    /\ overlapped' = (overlapped \/ OthersRunning(t))
    /\ UNCHANGED <<environ, assets, responses, indexes, chunkVars, searchVars>>

\* search_client.upload_documents(docs)
TaskUpload(t, outcome) ==
    /\ tasks[t].pc = "upload"
    /\ LET name == tasks[t].index_name
           result == IF outcome # "ok" THEN outcome
                     ELSE IF name \notin DOMAIN indexes THEN "not_found"
                     ELSE "ok"
           docs == {tasks[t].items[i] : i \in 1..Len(tasks[t].items)}
       IN  IF result = "ok"
           THEN /\ indexes' = upload_documents(indexes, name, docs)
                /\ tasks' = [tasks EXCEPT ![t].pc = "done"]
           ELSE /\ indexes' = indexes
                /\ tasks' = [tasks EXCEPT ![t] = log_error(@, result)]
    /\ overlapped' = (overlapped \/ OthersRunning(t))
    /\ UNCHANGED <<environ, assets, responses, used_ids, chunkVars, searchVars>>

(***************************************************************************)
(* app.py: POST /upload-book                                               *)
(***************************************************************************)
MaxRequests == 2

\* uuid.uuid4() of the n-th request: only its being fresh is used.
Uuid(n) == <<"f">> \o str(n)

ProcessingStarted == "Processing started in background"

\* upload_book: raise HTTPException(400, ...): nothing else happens.
UploadRejected(upload) ==
    /\ responses' = Append(responses,
           [request |-> upload, status_code |-> 400,
            detail |-> "Only .txt files are supported",
            saved_as |-> None, index_name |-> None, status |-> ""])
    /\ UNCHANGED <<assets, tasks>>

\* upload_book past the check: the file is saved under a unique name, the
\* index name is the given one or is made from the file name, the task is
\* added and the acknowledgment returned.
UploadAccepted(upload) ==
    LET filename == upload.filename
        unique_filename == Uuid(Len(responses) + 1) \o <<"_">> \o filename
        file_path == ASSETS_DIR \o <<"/">> \o unique_filename
        base_name ==
            replace(lower(replace(basename(filename), DotTxt, <<>>)),
                    <<" ">>, <<"-">>)
        name ==
            IF upload.index_name = <<>>
            THEN environ_get("AISEARCH_INDEX_NAME", BooksPrefix)
                     \o <<"-">> \o base_name
            ELSE upload.index_name
    IN  /\ assets' = assets \cup {[path |-> file_path, file |-> filename]}
        /\ tasks' = Append(tasks, NewTask(file_path, name))
        /\ responses' = Append(responses,
               [request |-> upload, status_code |-> 200,
                detail |-> "", saved_as |-> unique_filename,
                index_name |-> name, status |-> ProcessingStarted])

\* The mutant of upload_book: the file type is not checked.
upload_book_unchecked(filename, index_name) ==
    /\ Len(responses) < MaxRequests
    /\ UploadAccepted([filename |-> filename, index_name |-> index_name])
    /\ UNCHANGED <<environ, overlapped, serviceVars, chunkVars, searchVars>>

\* upload_book(background_tasks, file, index_name): the whole handler.
upload_book(filename, index_name) ==
    /\ Len(responses) < MaxRequests
    /\ LET upload == [filename |-> filename, index_name |-> index_name]
       IN  IF ~endswith(filename, DotTxt)
           THEN UploadRejected(upload)
           ELSE UploadAccepted(upload)
    /\ UNCHANGED <<environ, overlapped, serviceVars, chunkVars, searchVars>>

ServerIdle ==
    /\ assets = {}
    /\ tasks = <<>>
    /\ responses = <<>>
    /\ overlapped = FALSE

(***************************************************************************)
(* Specification Spec: uploads and their background indexing tasks         *)
(***************************************************************************)
\* Document identifiers are uuid4 strings, which the service orders as
\* strings; the model uses integers with their order, as many as the
\* requests can need.
Ids == 1..(MaxRequests * Max({Len(FileChunks[f]) : f \in FileNames}))

Init ==
    /\ environ \in {<<>>, [AISEARCH_INDEX_NAME |-> Classic]}
    /\ ServerIdle
    /\ ServiceIdle
    /\ text = <<>>
    /\ chunk_size = DefaultChunkSize
    /\ chunks = <<>>
    /\ chunk_pc = "done"
    /\ SearchIdle

Next ==
    \/ \E filename \in FileNames, index_name \in {None, ClassicMobyDick} :
          upload_book(filename, index_name)
    \/ \E t \in 1..Len(tasks), outcome \in Outcomes : TaskDelete(t, outcome)
    \/ \E t \in 1..Len(tasks), outcome \in Outcomes : TaskCreate(t, outcome)
    \/ \E t \in 1..Len(tasks), outcome \in Outcomes, id \in Ids :
          TaskEmbed(t, outcome, id)
    \/ \E t \in 1..Len(tasks), outcome \in Outcomes : TaskUpload(t, outcome)

Spec == Init /\ [][Next]_vars

(***************************************************************************)
(* The external search service: listing and queries                        *)
(***************************************************************************)
\* The orders in which the service can list the index names.
Listings(idx) ==
    LET names == DOMAIN idx
        n == Cardinality(names)
    IN  {l \in [1..n -> names] : \A i, j \in 1..n : l[i] = l[j] => i = j}

\* select=["id", "content", "title", "filepath"]
SelectFields(d) ==
    [id |-> d.id, content |-> d.content, title |-> d.title,
     filepath |-> d.filepath]

\* The first n of docs in ascending order of id.
RECURSIVE FirstById(_, _)
FirstById(docs, n) ==
    IF n = 0 \/ docs = {} THEN <<>>
    ELSE LET d == CHOOSE x \in docs : \A y \in docs : x.id <= y.id
         IN  <<SelectFields(d)>> \o FirstById(docs \ {d}, n - 1)

\* What SearchClient.search can return for a call on an index holding docs.
\* With order_by "id asc" and an empty search text every document matches
\* and the first `top` by id are returned.  Otherwise the service ranks:
\* any `top` or fewer documents, in any order.
SearchResults(docs, call) ==
    IF call.order_by = "id asc"
    THEN {FirstById(docs, call.top)}
    ELSE LET n == IF call.top < Cardinality(docs) THEN call.top
                  ELSE Cardinality(docs)
         IN  {[i \in 1..Len(r) |-> SelectFields(r[i])] :
                 r \in {s \in SeqsUpTo(docs, n) :
                           \A i, j \in 1..Len(s) : s[i] = s[j] => i = j}}

(***************************************************************************)
(* book_rag_cli.py: get_available_indexes, search_index                    *)
(***************************************************************************)
\* The mutant of get_available_indexes: every index is a book index.
get_available_indexes_all(listing) == listing

\* get_available_indexes() when the service lists the names as listing.
get_available_indexes(listing) ==
    SelectSeq(listing, LAMBDA idx : startswith(idx, ClassicPrefix))

\* "first line"
FirstLine == <<"f", "i", "r", "s", "t", " ", "l", "i", "n", "e">>
\* "opening"
Opening == <<"o", "p", "e", "n", "i", "n", "g">>
\* "begin"
Begin == <<"b", "e", "g", "i", "n">>
\* "start"
Start == <<"s", "t", "a", "r", "t">>

\* The mutant of use_semantic_search: the query is not lower-cased.
use_semantic_search_cased(query) ==
    ~\E x \in {FirstLine, Opening, Begin, Start} : contains(query, x)

\* search_index: use_semantic_search =
\*     not any(x in query.lower() for x in ["first line", "opening", ...])
use_semantic_search(query) ==
    ~\E x \in {FirstLine, Opening, Begin, Start} : contains(lower(query), x)

\* The mutant of PositionalCall: top=k.
PositionalCallTopK(k) ==
    [search_text |-> <<>>, query_type |-> "simple", top |-> k,
     order_by |-> "id asc"]

\* search_index, first-line queries: search(search_text="", top=1,
\* order_by=["id asc"])
PositionalCall(k) ==
    [search_text |-> <<>>, query_type |-> "simple", top |-> 1,
     order_by |-> "id asc"]

\* search_index, normal queries: search(search_text=query,
\* query_type="semantic", semantic_configuration_name="default", top=k)
SemanticCall(query, k) ==
    [search_text |-> query, query_type |-> "semantic", top |-> k,
     order_by |-> ""]

\* The mutant of KeywordCall: the retry repeats the semantic search.
KeywordCallSemantic(query, k) ==
    [search_text |-> query, query_type |-> "semantic", top |-> k,
     order_by |-> ""]

\* search_index, the fallback: search(search_text=query, top=k)
KeywordCall(query, k) ==
    [search_text |-> query, query_type |-> "simple", top |-> k,
     order_by |-> ""]

\* The first call search_index makes for query and k.
FirstCall(query, k) ==
    IF use_semantic_search(query) THEN SemanticCall(query, k)
    ELSE PositionalCall(k)

(***************************************************************************)
(* app.py: search_books; book_rag_cli.py: main (one-shot mode)             *)
(***************************************************************************)
\* The k the caller passes to search_index: limit in search_books, 3 in main.
CliK == 3
\* interactive_cli: search_index(user_input, index, k=2)
InteractiveK == 2
K == IF request.caller = "cli" THEN CliK
     ELSE IF request.caller = "interactive" THEN InteractiveK
     ELSE request.limit

\* The list the loop over the indexes runs through: active_indexes in
\* search_books and main, target_indexes in interactive_cli.
Targets ==
    IF request.caller = "interactive" THEN target_indexes
    ELSE active_indexes

\* Where the handler is once the query is dealt with: search_books and
\* main are done, interactive_cli is back at its prompt.
AfterQuery == IF request.caller = "interactive" THEN "input" ELSE "done"

\* The mutant of FirstMentioned: the query is not lower-cased.
RECURSIVE FirstMentionedCased(_, _, _)
FirstMentionedCased(avail, query, i) ==
    IF i > Len(avail) THEN 0
    ELSE IF contains(query, lower(replace(avail[i], ClassicPrefix, <<>>)))
         THEN i
         ELSE FirstMentionedCased(avail, query, i + 1)

\* The position of the first index of avail from position i on whose name
\* without "classic-" occurs in the query, case-insensitively (0: none).
RECURSIVE FirstMentioned(_, _, _)
FirstMentioned(avail, query, i) ==
    IF i > Len(avail) THEN 0
    ELSE IF contains(lower(query),
                     lower(replace(avail[i], ClassicPrefix, <<>>)))
         THEN i
         ELSE FirstMentioned(avail, query, i + 1)

\* "Check if query is targeting a specific book": the loop with its break.
TargetIndexes(avail, query) ==
    LET m == FirstMentioned(avail, query, 1)
    IN  IF m = 0 THEN avail ELSE <<avail[m]>>

\* search_books: return {"results": [], "message": "No relevant ..."};
\* main: print("No relevant information found for your query.");
\* interactive_cli: print("No relevant information found in the ...")
EmptyResponse ==
    [NoResponse EXCEPT !.kind = "empty",
        !.status_code = IF request.caller = "api" THEN 200 ELSE 0,
        !.text = IF request.caller = "interactive"
                 THEN "No relevant information found in the selected indexes."
                 ELSE "No relevant information found for your query."]

\* The mutant of ErrorResponse: the exception is swallowed and the body is
\* returned without a response text.
ErrorResponseSwallowed(e) ==
    [NoResponse EXCEPT !.kind = "answer", !.status_code = 200,
        !.results = all_contexts, !.indexes_searched = active_indexes]

\* search_books: except Exception as e: raise HTTPException(500, ...);
\* main catches nothing: the exception ends the program; interactive_cli
\* prints "Error generating response: ..." and goes on.
ErrorResponse(e) ==
    IF request.caller = "api"
    THEN [NoResponse EXCEPT !.kind = "error", !.status_code = 500,
                            !.detail = e]
    ELSE IF request.caller = "interactive"
    THEN [NoResponse EXCEPT !.kind = "error", !.detail = e]
    ELSE [NoResponse EXCEPT !.kind = "exception", !.detail = e]

\* The mutant of LoopEnd: the response is generated whatever was found.
LoopEndAlwaysGenerates(ctxs) == pc' = "generate" /\ response' = response

\* After the loop over the indexes: nothing found ends the handler,
\* otherwise the response is generated.
LoopEnd(ctxs) ==
    IF ctxs = <<>>
    THEN pc' = AfterQuery /\ response' = EmptyResponse
    ELSE pc' = "generate" /\ response' = response

\* The loop goes on to the next index, or ends.
LoopNext(ctxs) ==
    IF Len(returns') < Len(Targets)
    THEN pc' = "search" /\ response' = response
    ELSE LoopEnd(ctxs)

\* The handler up to its loop: the indexes to search.  search_books lists
\* the indexes only when no index_name is given, main always does; a failure
\* of the listing is an exception outside the loop's try.
ListIndexes(outcome, listing) ==
    /\ pc = "list"
    /\ request.caller \in {"api", "cli"}
    /\ LET given == request.index_name # None
           lists == request.caller = "cli" \/ ~given
           avail == IF lists THEN get_available_indexes(listing) ELSE <<>>
           active == IF given THEN <<request.index_name>>
                     ELSE TargetIndexes(avail, request.query)
       IN  IF lists /\ outcome # "ok"
           THEN /\ pc' = "done"
                /\ response' = ErrorResponse(outcome)
                /\ UNCHANGED <<available, active_indexes, listed>>
           ELSE /\ listed' = IF lists THEN listing ELSE listed
                /\ available' = avail
                /\ active_indexes' = active
                /\ IF request.caller = "cli" /\ ~given /\ avail = <<>>
                   THEN /\ pc' = "done"
                        /\ response' = [NoResponse EXCEPT !.kind = "no_indexes"]
                   ELSE IF active = <<>>
                        THEN LoopEnd(<<>>)
                        ELSE pc' = "search" /\ response' = response
    /\ UNCHANGED <<request, searched, calls, returns, all_contexts,
                   chat_calls, target_indexes, inputs,
                   chunkVars, serverVars, serviceVars>>

\* GET /book-indexes: the whole handler.  The list of
\* get_available_indexes is returned as {"indexes": ...}; an exception of
\* the listing is answered with HTTPException(500, ...).
get_book_indexes(outcome, listing) ==
    /\ pc = "list"
    /\ request.caller = "book_indexes"
    /\ pc' = "done"
    /\ IF outcome # "ok"
       THEN /\ response' = [NoResponse EXCEPT !.kind = "error",
                               !.status_code = 500, !.detail = outcome]
            /\ listed' = listed
       ELSE /\ response' = [NoResponse EXCEPT !.kind = "indexes",
                               !.status_code = 200,
                               !.results = get_available_indexes(listing)]
            /\ listed' = listing
    /\ UNCHANGED <<request, available, active_indexes, searched, calls,
                   returns, all_contexts, chat_calls, target_indexes, inputs,
                   chunkVars, serverVars, serviceVars>>

\* The index the loop is at.
CurrentIndex == Targets[Len(returns) + 1]

\* The mutant of SearchRaised: the exception is not caught in the loop and
\* reaches the handler's outer except.
SearchRaisedPropagates(e) ==
    /\ returns' = Append(returns,
           [index |-> CurrentIndex, raised |-> TRUE, results |-> <<>>])
    /\ all_contexts' = all_contexts
    /\ pc' = "done"
    /\ response' = ErrorResponse(e)

\* search_index raised: except Exception as e: logger.error(...), and the
\* loop goes on.
SearchRaised(e) ==
    /\ returns' = Append(returns,
           [index |-> CurrentIndex, raised |-> TRUE, results |-> <<>>])
    /\ all_contexts' = all_contexts
    /\ LoopNext(all_contexts)

\* search_index returned results: if results: all_contexts.extend(results)
SearchReturned(results) ==
    /\ returns' = Append(returns,
           [index |-> CurrentIndex, raised |-> FALSE, results |-> results])
    /\ all_contexts' = all_contexts \o results
    /\ LoopNext(all_contexts \o results)

\* How a call on the current index ends when the service does as outcome.
CallResult(outcome) ==
    IF outcome # "ok" THEN outcome
    ELSE IF CurrentIndex \notin DOMAIN indexes THEN "not_found"
    ELSE "ok"

Called(call, result, n) ==
    [index |-> CurrentIndex, call |-> call, result |-> result, found |-> n]

\* search_index(query, index, k): its first call raises.
SearchFirstRaises(outcome) ==
    /\ pc = "search"
    /\ CallResult(outcome) # "ok"
    /\ searched' = Append(searched, CurrentIndex)
    /\ calls' = Append(calls,
           Called(FirstCall(request.query, K), CallResult(outcome), 0))
    /\ SearchRaised(CallResult(outcome))
    /\ UNCHANGED <<request, listed, target_indexes, inputs,
                   available, active_indexes, chat_calls,
                   chunkVars, serverVars, serviceVars>>

\* The mutant of SearchFirstReturns: the keyword search follows any first
\* call without results.
SearchFirstReturnsRetries(results) ==
    /\ pc = "search"
    /\ CallResult("ok") = "ok"
    /\ results \in SearchResults(indexes[CurrentIndex],
                                 FirstCall(request.query, K))
    /\ searched' = Append(searched, CurrentIndex)
    /\ calls' = Append(calls,
           Called(FirstCall(request.query, K), "ok", Len(results)))
    /\ IF results = <<>>
       THEN /\ pc' = "fallback"
            /\ UNCHANGED <<returns, all_contexts, response>>
       ELSE SearchReturned(results)
    /\ UNCHANGED <<request, listed, target_indexes, inputs,
                   available, active_indexes, chat_calls,
                   chunkVars, serverVars, serviceVars>>

\* search_index(query, index, k): its first call returns results.  With
\* results, or in positional mode, search_index returns them; a semantic
\* search without results goes on to the keyword search.
SearchFirstReturns(results) ==
    /\ pc = "search"
    /\ CallResult("ok") = "ok"
    /\ results \in SearchResults(indexes[CurrentIndex],
                                 FirstCall(request.query, K))
    /\ searched' = Append(searched, CurrentIndex)
    /\ calls' = Append(calls,
           Called(FirstCall(request.query, K), "ok", Len(results)))
    /\ IF results = <<>> /\ use_semantic_search(request.query)
       THEN /\ pc' = "fallback"
            /\ UNCHANGED <<returns, all_contexts, response>>
       ELSE SearchReturned(results)
    /\ UNCHANGED <<request, listed, target_indexes, inputs,
                   available, active_indexes, chat_calls,
                   chunkVars, serverVars, serviceVars>>

\* search_index: the keyword search raises.
SearchFallbackRaises(outcome) ==
    /\ pc = "fallback"
    /\ CallResult(outcome) # "ok"
    /\ calls' = Append(calls,
           Called(KeywordCall(request.query, K), CallResult(outcome), 0))
    /\ SearchRaised(CallResult(outcome))
    /\ UNCHANGED <<request, listed, target_indexes, inputs,
                   available, active_indexes, searched, chat_calls,
                   chunkVars, serverVars, serviceVars>>

\* search_index: the keyword search returns, and so does search_index.
SearchFallbackReturns(results) ==
    /\ pc = "fallback"
    /\ CallResult("ok") = "ok"
    /\ results \in SearchResults(indexes[CurrentIndex],
                                 KeywordCall(request.query, K))
    /\ calls' = Append(calls,
           Called(KeywordCall(request.query, K), "ok", Len(results)))
    /\ SearchReturned(results)
    /\ UNCHANGED <<request, listed, target_indexes, inputs,
                   available, active_indexes, searched, chat_calls,
                   chunkVars, serverVars, serviceVars>>

(***************************************************************************)
(* book_rag_cli.py: get_personality_greeting, generate_rag_response        *)
(***************************************************************************)
greetings ==
    [classic_literature |-> <<
        "Greetings, literary enthusiast! I'm your guide through the timeless world of classic literature. What would you like to explore today?",
        "Welcome to the realm of classic literature! Shall we dive into a particular book or discuss literary themes?",
        "Hello! I'm your classic literature companion. Would you like to analyze a specific work or compare different books?",
        "Greetings! As your literary guide, I can help you explore themes, characters, or historical context. What interests you today?">>,
     philosopher |-> <<
        "Greetings, seeker of wisdom! I'm here to explore the philosophical depths of classic literature. What profound questions shall we contemplate?",
        "Welcome! As a philosophical guide through literature, I can help you examine deeper meanings and existential themes. What shall we explore?",
        "Hello! I'm ready to engage in thoughtful discourse about the philosophical implications in classic works. What would you like to discuss?",
        "Greetings! Let's examine the philosophical underpinnings of classic literature together. What work or theme shall we analyze?">>,
     storyteller |-> <<
        "Welcome to the magical world of storytelling! I'm here to bring classic literature to life. What tale shall we explore today?",
        "Greetings, fellow story lover! I can help you discover the narrative wonders of classic literature. What story captures your interest?",
        "Hello! As your storytelling companion, I'm ready to weave the tales of classic literature. What would you like to hear about?",
        "Welcome! Let's embark on a journey through the pages of classic literature. What story would you like to explore?">>,
     critic |-> <<
        "Greetings! As your literary critic, I'm ready to provide detailed analysis of classic works. What shall we examine today?",
        "Welcome! I'm here to offer critical insights into classic literature. Which work or author would you like to discuss?",
        "Hello! As your literary analyst, I can help you understand the nuances of classic works. What would you like to explore?",
        "Greetings! Let's examine the literary merits and historical significance of classic works. What shall we analyze?">>]

\* greetings.get(personality, greetings["classic_literature"]), and of
\* that list the element random.choice picks.
get_personality_greeting(personality, choice) ==
    LET personality_greetings ==
            IF personality \in DOMAIN greetings THEN greetings[personality]
            ELSE greetings["classic_literature"]
    IN  personality_greetings[choice]

\* The positions random.choice can pick in a greeting list.
GreetingChoices == 1..4

\* The mutant of IsBlank: only the empty query is blank.
IsBlankEmptyOnly(user_query) == user_query = <<>>

\* not user_query or user_query.strip() == ""
IsBlank(user_query) == user_query = <<>> \/ strip(user_query) = <<>>

\* The keys of personality_prompts.
PersonalityPrompts ==
    {"classic_literature", "philosopher", "storyteller", "critic"}

\* "Check if query is about first line":
\*     any(x in user_query.lower() for x in ["first line", "opening", ...])
asks_first_line(user_query) ==
    \E x \in {FirstLine, Opening, Begin, Start} :
        contains(lower(user_query), x)

\* book_contexts: the contexts grouped by title, the titles in the order
\* of their first context, each group's passages numbered from 1.
RECURSIVE GroupByTitle(_)
GroupByTitle(contexts) ==
    IF contexts = <<>> THEN <<>>
    ELSE LET t == contexts[1].title
             same == SelectSeq(contexts, LAMBDA c : c.title = t)
             rest == SelectSeq(contexts, LAMBDA c : c.title # t)
         IN  <<[book |-> t,
                passages |-> [i \in 1..Len(same) |->
                                 [passage |-> i, id |-> same[i].id,
                                  content |-> same[i].content]]]>>
                 \o GroupByTitle(rest)

\* messages: the system prompt of the personality with the retrieved
\* content, and the user's query, with the quoting instruction appended to
\* a first-line query.
Messages(user_query, contexts, personality) ==
    [base_prompt |-> IF personality \in PersonalityPrompts THEN personality
                     ELSE "classic_literature",
     retrieved |-> GroupByTitle(contexts),
     user_query |-> user_query,
     quote_first_line |-> asks_first_line(user_query)]

\* The personality generate_rag_response runs with: search_books and main
\* pass none, so the default applies.
Personality ==
    IF request.caller = "direct" THEN request.personality
    ELSE "classic_literature"

\* generate_rag_response returned text to its caller: search_books returns
\* the results, the response and the indexes searched, main prints.
GenerateReturned(txt) ==
    /\ pc' = AfterQuery
    /\ response' =
          IF request.caller = "api"
          THEN [NoResponse EXCEPT !.kind = "answer", !.status_code = 200,
                   !.results = all_contexts, !.text = txt,
                   !.indexes_searched = active_indexes]
          ELSE IF request.caller \in {"cli", "interactive"}
          THEN [NoResponse EXCEPT !.kind = "answer", !.text = txt]
          ELSE [NoResponse EXCEPT !.kind = "returned", !.text = txt]

\* generate_rag_response, blank query: the greeting, and nothing else.
ReturnsGreeting(choice) ==
    /\ pc = "generate"
    /\ IsBlank(request.query)
    /\ GenerateReturned(get_personality_greeting(Personality, choice))
    /\ UNCHANGED <<request, listed, target_indexes, inputs,
                   available, active_indexes, searched, calls,
                   returns, all_contexts, chat_calls,
                   chunkVars, serverVars, serviceVars>>

\* The log entry of a chat completion call: the messages sent, and how the
\* call ended.
ChatCalled(messages, outcome) ==
    [base_prompt |-> messages.base_prompt,
     retrieved |-> messages.retrieved,
     user_query |-> messages.user_query,
     quote_first_line |-> messages.quote_first_line,
     result |-> outcome]

\* response.choices[0].message.content of a completion.
Completion == "completion"

\* generate_rag_response, any other query: the chat completion call, which
\* answers or raises.
ChatCompletion(outcome) ==
    /\ pc = "generate"
    /\ ~IsBlank(request.query)
    /\ chat_calls' = Append(chat_calls,
           ChatCalled(Messages(request.query, all_contexts, Personality),
                      outcome))
    /\ IF outcome = "ok"
       THEN GenerateReturned(Completion)
       ELSE pc' = AfterQuery /\ response' = ErrorResponse(outcome)
    /\ UNCHANGED <<request, listed, target_indexes, inputs,
                   available, active_indexes, searched, calls,
                   returns, all_contexts,
                   chunkVars, serverVars, serviceVars>>

(***************************************************************************)
(* Specification SpecSearch: one search request, one-shot query or direct  *)
(* call of generate_rag_response against a service holding indexes built   *)
(* by the indexing pipeline                                                *)
(***************************************************************************)
MaxLimit == 2

\* "What is the opening line of Moby Dick?"
OpeningLineOfMobyDick ==
    <<"W", "h", "a", "t", " ", "i", "s", " ", "t", "h", "e", " ", "o", "p",
      "e", "n", "i", "n", "g", " ", "l", "i", "n", "e", " ", "o", "f", " ",
      "M", "o", "b", "y", " ", "D", "i", "c", "k", "?">>
\* "Tell me about Frankenstein"
AboutFrankenstein ==
    <<"T", "e", "l", "l", " ", "m", "e", " ", "a", "b", "o", "u", "t", " ",
      "F", "r", "a", "n", "k", "e", "n", "s", "t", "e", "i", "n">>
\* "  "
Blanks == <<" ", " ">>
\* "who is ahab"
WhoIsAhab == <<"w", "h", "o", " ", "i", "s", " ", "a", "h", "a", "b">>
\* "moby-dick first line"
MobyDickFirstLine ==
    <<"m", "o", "b", "y", "-", "d", "i", "c", "k", " ", "f", "i", "r", "s",
      "t", " ", "l", "i", "n", "e">>
\* "frankenstein or moby-dick"
FrankensteinOrMobyDick ==
    <<"f", "r", "a", "n", "k", "e", "n", "s", "t", "e", "i", "n", " ", "o",
      "r", " ", "m", "o", "b", "y", "-", "d", "i", "c", "k">>
\* "RESTART"
Restart == <<"R", "E", "S", "T", "A", "R", "T">>

Queries ==
    {OpeningLineOfMobyDick, AboutFrankenstein, <<>>, Blanks, WhoIsAhab,
     MobyDickFirstLine, FrankensteinOrMobyDick, Restart}

Personalities ==
    {"classic_literature", "philosopher", "storyteller", "critic", "pirate"}

\* The documents the pipeline builds from the n-th uploaded file when uuid4
\* returns ids.
LibraryDocs(filename, n, ids) ==
    LET path == ASSETS_DIR \o <<"/">> \o Uuid(n) \o <<"_">> \o filename
        docs == create_docs_from_txt(FileText(filename), path, ids)
    IN  {docs[i] : i \in 1..Len(docs)}

\* The states of the service: each index absent (<<>>), or present with
\* its documents: empty (created, upload failed) or populated, under both
\* orders of the identifiers uuid4 can give the two chunks of moby dick.txt.
MobyDickStates ==
    {<<>>, <<LibraryDocs(MobyDickTxt, 1, <<1, 2>>)>>,
     <<LibraryDocs(MobyDickTxt, 1, <<2, 1>>)>>}
FrankensteinStates ==
    {<<>>, <<{}>>, <<LibraryDocs(FrankensteinTxt, 2, <<3>>)>>}

ServiceState(moby, frank) ==
    LET names == {BooksEmma}
                     \cup (IF moby = <<>> THEN {} ELSE {ClassicMobyDick})
                     \cup (IF frank = <<>> THEN {}
                           ELSE {ClassicFrankenstein})
    IN  [n \in names |->
            IF n = ClassicMobyDick THEN moby[1]
            ELSE IF n = ClassicFrankenstein THEN frank[1]
            ELSE LibraryDocs(EmmaTxt, 3, <<4>>)]

ServiceStates ==
    {ServiceState(m, f) : m \in MobyDickStates, f \in FrankensteinStates}

\* POST /search-books?query=..&index_name=..&limit=..
ApiRequests ==
    [caller : {"api"}, query : Queries, index_name : {None, ClassicMobyDick},
     limit : 1..MaxLimit, personality : {""}]

\* book_rag_cli.py --query .. [--index ..]; an empty --query starts the
\* interactive mode instead.
CliRequests ==
    [caller : {"cli"}, query : Queries \ {<<>>},
     index_name : {None, ClassicMobyDick}, limit : {CliK},
     personality : {""}]

\* generate_rag_response(user_query, contexts, personality)
DirectCalls ==
    [caller : {"direct"}, query : Queries, index_name : {None},
     limit : {0}, personality : Personalities]

\* GET /book-indexes
BookIndexesRequests ==
    [caller : {"book_indexes"}, query : {<<>>}, index_name : {None},
     limit : {0}, personality : {""}]

\* The context lists of the direct calls.
DirectContexts ==
    {<<>>} \cup
    {[i \in 1..Len(s) |-> SelectFields(s[i])] :
        s \in {create_docs_from_txt(FileText(MobyDickTxt),
                   ASSETS_DIR \o <<"/">> \o Uuid(1) \o <<"_">> \o MobyDickTxt,
                   <<2, 1>>)}}

InitSearch ==
    /\ request \in ApiRequests \cup CliRequests \cup DirectCalls
                   \cup BookIndexesRequests
    /\ IF request.caller = "direct"
       THEN /\ indexes = <<>>
            /\ pc = "generate"
            /\ all_contexts \in DirectContexts
       ELSE /\ indexes \in ServiceStates
            /\ pc = "list"
            /\ all_contexts = <<>>
    /\ used_ids = UNION {{d.id : d \in indexes[n]} : n \in DOMAIN indexes}
    /\ available = <<>>
    /\ active_indexes = <<>>
    /\ searched = <<>>
    /\ calls = <<>>
    /\ returns = <<>>
    /\ chat_calls = <<>>
    /\ response = NoResponse
    /\ listed = <<>>
    /\ target_indexes = <<>>
    /\ inputs = <<>>
    /\ environ = <<>>
    /\ ServerIdle
    /\ text = <<>>
    /\ chunk_size = DefaultChunkSize
    /\ chunks = <<>>
    /\ chunk_pc = "done"

\* Every result list a call of the handler in its current state can get.
PossibleResults ==
    IF pc \in {"search", "fallback"} /\ CurrentIndex \in DOMAIN indexes
    THEN SearchResults(indexes[CurrentIndex],
             IF pc = "search" THEN FirstCall(request.query, K)
             ELSE KeywordCall(request.query, K))
    ELSE {}

NextSearch ==
    \/ \E outcome \in Outcomes, listing \in Listings(indexes) :
          ListIndexes(outcome, listing)
    \/ \E outcome \in Outcomes, listing \in Listings(indexes) :
          get_book_indexes(outcome, listing)
    \/ \E outcome \in Outcomes : SearchFirstRaises(outcome)
    \/ \E results \in PossibleResults : SearchFirstReturns(results)
    \/ \E outcome \in Outcomes : SearchFallbackRaises(outcome)
    \/ \E results \in PossibleResults : SearchFallbackReturns(results)
    \/ \E choice \in GreetingChoices : ReturnsGreeting(choice)
    \/ \E outcome \in Outcomes : ChatCompletion(outcome)

SpecSearch == InitSearch /\ [][NextSearch]_vars

(***************************************************************************)
(* book_rag_cli.py: interactive_cli                                        *)
(***************************************************************************)
\* "exit"
Exit == <<"e", "x", "i", "t">>
\* "quit"
Quit == <<"q", "u", "i", "t">>
\* "indexes"
IndexesCommand == <<"i", "n", "d", "e", "x", "e", "s">>
\* "all"
All == <<"a", "l", "l">>

\* str.split(c) for a separator c of one character.
RECURSIVE split(_, _)
split(s, c) ==
    IF \E i \in 1..Len(s) : s[i] = c
    THEN LET i == CHOOSE j \in 1..Len(s) :
                      s[j] = c /\ \A h \in 1..(j - 1) : s[h] # c
         IN  <<SubSeq(s, 1, i - 1)>> \o split(SubSeq(s, i + 1, Len(s)), c)
    ELSE <<s>>

\* The answer to "Select indexes (comma-separated) or 'all'":
\*     selected = [idx.strip() for idx in select.split(',')]
\*     active_indexes = [idx for idx in selected if idx in available_indexes]
Selected(select, avail) ==
    IF lower(select) = All THEN avail
    ELSE LET parts == split(select, ",")
             selected == [i \in 1..Len(parts) |-> strip(parts[i])]
         IN  SelectSeq(selected,
                 LAMBDA idx : \E i \in 1..Len(avail) : avail[i] = idx)

\* "Check if query is targeting a specific book" in interactive_cli:
\* target_indexes starts as the active indexes, and the loop with its
\* break runs over available_indexes.
InteractiveTargets(active, avail, user_input) ==
    LET m == FirstMentioned(avail, user_input, 1)
    IN  IF m = 0 THEN active ELSE <<avail[m]>>

\* The session up to its loop: the indexes are listed once; none ends it.
InteractiveStart(outcome, listing) ==
    /\ pc = "start"
    /\ request.caller = "interactive"
    /\ IF outcome # "ok"
       THEN /\ pc' = "done"
            /\ response' = [NoResponse EXCEPT !.kind = "exception",
                                              !.detail = outcome]
            /\ UNCHANGED <<listed, available, active_indexes>>
       ELSE /\ listed' = listing
            /\ available' = get_available_indexes(listing)
            /\ IF get_available_indexes(listing) = <<>>
               THEN /\ pc' = "done"
                    /\ response' = [NoResponse EXCEPT !.kind = "no_indexes"]
                    /\ active_indexes' = active_indexes
               ELSE /\ pc' = "input"
                    /\ response' = response
                    /\ active_indexes' = get_available_indexes(listing)
    /\ UNCHANGED <<request, searched, calls, returns, all_contexts,
                   chat_calls, target_indexes, inputs,
                   chunkVars, serverVars, serviceVars>>

MaxInputs == 3

\* One turn of the loop up to its first call: user_input is read; "exit"
\* or "quit" ends the loop, "indexes" asks for a selection, anything else
\* is a query, whose target indexes are chosen; with none to search the
\* turn is over.
ReadInput(user_input) ==
    /\ pc = "input"
    /\ Len(inputs) < MaxInputs
    /\ inputs' = Append(inputs, user_input)
    /\ IF lower(user_input) \in {Exit, Quit}
       THEN /\ pc' = "ended"
            /\ UNCHANGED <<request, target_indexes, searched, calls, returns,
                           all_contexts, chat_calls, response>>
       ELSE IF lower(user_input) = IndexesCommand
       THEN /\ pc' = "select"
            /\ UNCHANGED <<request, target_indexes, searched, calls, returns,
                           all_contexts, chat_calls, response>>
       ELSE /\ request' = [request EXCEPT !.query = user_input]
            /\ target_indexes' =
                  InteractiveTargets(active_indexes, available, user_input)
            /\ searched' = <<>>
            /\ calls' = <<>>
            /\ returns' = <<>>
            /\ all_contexts' = <<>>
            /\ chat_calls' = <<>>
            /\ IF InteractiveTargets(active_indexes, available, user_input)
                      = <<>>
               THEN pc' = "input" /\ response' = EmptyResponse
               ELSE pc' = "search" /\ response' = NoResponse
    /\ UNCHANGED <<listed, available, active_indexes,
                   chunkVars, serverVars, serviceVars>>

\* The turn of the "indexes" command: the selection is read and the active
\* indexes are set.
ReadSelection(select) ==
    /\ pc = "select"
    /\ Len(inputs) < MaxInputs
    /\ inputs' = Append(inputs, select)
    /\ active_indexes' = Selected(select, available)
    /\ pc' = "input"
    /\ UNCHANGED <<request, listed, available, target_indexes, searched,
                   calls, returns, all_contexts, chat_calls, response,
                   chunkVars, serverVars, serviceVars>>

(***************************************************************************)
(* Specification SpecCli: one interactive session                          *)
(***************************************************************************)
\* "EXIT"
ExitUpper == <<"E", "X", "I", "T">>
\* "ALL"
AllUpper == <<"A", "L", "L">>
\* "classic-moby-dick , classic-dracula"
SelectMobyDickAndUnknown ==
    <<"c", "l", "a", "s", "s", "i", "c", "-", "m", "o", "b", "y", "-", "d",
      "i", "c", "k", " ", ",", " ", "c", "l", "a", "s", "s", "i", "c", "-",
      "d", "r", "a", "c", "u", "l", "a">>
\* "classic-dracula"
SelectUnknown ==
    <<"c", "l", "a", "s", "s", "i", "c", "-", "d", "r", "a", "c", "u", "l",
      "a">>

\* The lines typed at "Enter your query: ".
UserInputs ==
    {Quit, ExitUpper, IndexesCommand, AboutFrankenstein, WhoIsAhab, Blanks}

\* The lines typed at "Select indexes (comma-separated) or 'all': ".
Selections ==
    {AllUpper, ClassicFrankenstein, SelectMobyDickAndUnknown, SelectUnknown}

\* The services of the sessions: both book indexes populated, one of them,
\* or none.
CliServiceStates ==
    {ServiceState(m, f) :
        m \in {<<>>, <<LibraryDocs(MobyDickTxt, 1, <<1, 2>>)>>},
        f \in {<<>>, <<LibraryDocs(FrankensteinTxt, 2, <<3>>)>>}}

InitCli ==
    /\ request = [NoRequest EXCEPT !.caller = "interactive"]
    /\ pc = "start"
    /\ indexes \in CliServiceStates
    /\ used_ids = UNION {{d.id : d \in indexes[n]} : n \in DOMAIN indexes}
    /\ available = <<>>
    /\ active_indexes = <<>>
    /\ searched = <<>>
    /\ calls = <<>>
    /\ returns = <<>>
    /\ all_contexts = <<>>
    /\ chat_calls = <<>>
    /\ response = NoResponse
    /\ listed = <<>>
    /\ target_indexes = <<>>
    /\ inputs = <<>>
    /\ environ = <<>>
    /\ ServerIdle
    /\ text = <<>>
    /\ chunk_size = DefaultChunkSize
    /\ chunks = <<>>
    /\ chunk_pc = "done"

NextCli ==
    \/ \E outcome \in Outcomes, listing \in Listings(indexes) :
          InteractiveStart(outcome, listing)
    \/ \E user_input \in UserInputs : ReadInput(user_input)
    \/ \E select \in Selections : ReadSelection(select)
    \/ \E outcome \in Outcomes : SearchFirstRaises(outcome)
    \/ \E results \in PossibleResults : SearchFirstReturns(results)
    \/ \E outcome \in Outcomes : SearchFallbackRaises(outcome)
    \/ \E results \in PossibleResults : SearchFallbackReturns(results)
    \/ \E choice \in GreetingChoices : ReturnsGreeting(choice)
    \/ \E outcome \in Outcomes : ChatCompletion(outcome)

SpecCli == InitCli /\ [][NextCli]_vars

(***************************************************************************)
(* Specification SpecChunk: chunk_text on every small text                 *)
(***************************************************************************)
MaxTextLen == 5
MaxChunkSize == 2
TextAlphabet == {"a", SP, NL}

InitChunk ==
    /\ text \in SeqsUpTo(TextAlphabet, MaxTextLen)
    /\ chunk_size \in -1..MaxChunkSize
    /\ chunks = <<>>
    /\ chunk_pc = "call"
    /\ environ = <<>>
    /\ ServerIdle
    /\ ServiceIdle
    /\ SearchIdle

\* chunks = chunk_text(text, chunk_size)
ChunkText ==
    /\ chunk_pc = "call"
    /\ chunks' = chunk_text(text, chunk_size)
    /\ chunk_pc' = "done"
    /\ UNCHANGED <<text, chunk_size, serverVars, serviceVars, searchVars>>

NextChunk == ChunkText

SpecChunk == InitChunk /\ [][NextChunk]_vars

(***************************************************************************)
(* C2                                                                      *)
(***************************************************************************)
Range(s) == {s[i] : i \in 1..Len(s)}

\* The tasks that index into the index called name.
TasksOf(name) == {t \in 1..Len(tasks) : tasks[t].index_name = name}

\* The uploaded file a task reads.
FileOf(t) == (CHOOSE f \in assets : f.path = tasks[t].file_path).file

\* No call of task t failed on the service's side (a delete that finds no
\* index is not such a failure).
NoServiceError(t) ==
    tasks[t].deleted # "service_error" /\ tasks[t].error # "service_error"

\* Index name has been built at least twice, always from the same file, by
\* runs that followed one another, and no call failed.
RebuiltFromSameFile(name) ==
    /\ Cardinality(TasksOf(name)) >= 2
    /\ \A t \in 1..Len(tasks) : tasks[t].pc \in Finished
    /\ ~overlapped
    /\ \A t, u \in TasksOf(name) : FileOf(t) = FileOf(u)
    /\ \A t \in TasksOf(name) : NoServiceError(t)

\* C2: after consecutive runs of create_index_from_txt for the same index
\* name and the same source file, with no call failing, every run has
\* succeeded and the index holds exactly the documents of one run: as many
\* as the file has chunks, with the chunks as contents, never both copies.
C2_RecreateIsIdempotent ==
    \A name \in {tasks[t].index_name : t \in 1..Len(tasks)} :
        RebuiltFromSameFile(name) =>
            /\ \A t \in TasksOf(name) : tasks[t].pc = "done"
            /\ name \in DOMAIN indexes
            /\ \E t \in TasksOf(name) :
                  LET path == tasks[t].file_path
                      items == tasks[t].items
                  IN  /\ indexes[name] = Range(items)
                      /\ items = create_docs_from_txt(ReadFile(path), path,
                                     [i \in 1..Len(items) |-> items[i].id])
                      /\ Cardinality(indexes[name])
                            = Len(chunk_text(ReadFile(path), DefaultChunkSize))

\* "moby dick.txt" indexed twice in a row into the same index, which holds
\* its two chunks once.
C2_Witness ==
    /\ Len(tasks) = 2
    /\ tasks[1].index_name = tasks[2].index_name
    /\ RebuiltFromSameFile(tasks[1].index_name)
    /\ FileOf(1) = MobyDickTxt
    /\ tasks[2].deleted = "ok"
    /\ Cardinality(indexes[tasks[1].index_name]) = 2

(***************************************************************************)
(* C8                                                                      *)
(***************************************************************************)
\* This step answered an upload whose file name does not end in ".txt".
NonTxtUploadAnswered ==
    /\ Len(responses') = Len(responses) + 1
    /\ ~endswith(responses'[Len(responses')].request.filename, DotTxt)

\* C8: an upload whose file name does not end in ".txt" is answered with
\* 400, and that step writes no file, computes no index name, schedules no
\* task and leaves the search service alone.
C8_NonTxtRejected ==
    [][NonTxtUploadAnswered =>
          /\ responses'[Len(responses')].status_code = 400
          /\ responses'[Len(responses')].index_name = None
          /\ responses'[Len(responses')].saved_as = None
          /\ assets' = assets
          /\ tasks' = tasks
          /\ indexes' = indexes]_vars

\* "notes.pdf" was uploaded and rejected.
C8_Witness ==
    \E i \in 1..Len(responses) :
        /\ responses[i].request.filename = NotesPdf
        /\ responses[i].status_code = 400
        /\ Len(tasks) < i
        /\ Cardinality(assets) < i

(***************************************************************************)
(* C9                                                                      *)
(***************************************************************************)
\* The accepted uploads, in order: the i-th one added task i.
Accepted == SelectSeq(responses, LAMBDA r : r.status_code = 200)

\* Task t makes its next call (shown with the outcome that has the service
\* fail: whether the call can be made does not depend on its outcome).
TaskStep(t) ==
    \/ TaskDelete(t, "service_error")
    \/ TaskCreate(t, "service_error")
    \/ \E id \in Ids : TaskEmbed(t, "service_error", id)
    \/ TaskUpload(t, "service_error")

\* Only task t's own record changes in this step.
OnlyTaskChanged(t) ==
    /\ Len(tasks') = Len(tasks)
    /\ \A u \in 1..Len(tasks) : u # t => tasks'[u] = tasks[u]

\* Every accepted upload has been acknowledged, whatever its task has done
\* since; a task that is not finished can make its next call whatever the
\* others did, and a further request is answered (shown with "notes.pdf":
\* whether the handler runs does not depend on the file).
AcknowledgedAndRunnable ==
    /\ Len(Accepted) = Len(tasks)
    /\ \A t \in 1..Len(tasks) :
          /\ Accepted[t].status = ProcessingStarted
          /\ Accepted[t].index_name = tasks[t].index_name
          /\ tasks[t].error # "" => tasks[t].pc = "failed"
          /\ tasks[t].pc \notin Finished => ENABLED TaskStep(t)
    /\ Len(responses) < MaxRequests =>
          ENABLED upload_book(NotesPdf, None)

\* C9: an accepted upload is answered "Processing started in background"
\* in the step that adds its task, before the task's first call; no step of
\* a task changes a response or another task; an exception of
\* create_index_from_txt ends the task as failed (logged); a finished task,
\* failed or not, never runs again; and neither outcome stops other tasks
\* or further requests.
C9_FireAndForget ==
    /\ []AcknowledgedAndRunnable
    /\ [][/\ Len(tasks') > Len(tasks) =>
                /\ tasks'[Len(tasks')].pc = "delete"
                /\ responses'[Len(responses')].status = ProcessingStarted
          /\ tasks' # tasks /\ Len(tasks') = Len(tasks) =>
                /\ responses' = responses
                /\ \E t \in 1..Len(tasks) : OnlyTaskChanged(t)
          /\ \A t \in 1..Len(tasks) :
                tasks[t].pc \in Finished => tasks'[t] = tasks[t]]_vars

\* One task has failed and was logged, its upload stays acknowledged, and
\* another task has succeeded after it.
C9_Witness ==
    \E t, u \in 1..Len(tasks) :
        /\ tasks[t].pc = "failed"
        /\ tasks[t].error = "service_error"
        /\ Accepted[t].status = ProcessingStarted
        /\ tasks[u].pc = "done"

(***************************************************************************)
(* C1                                                                      *)
(***************************************************************************)
\* The positions of s inside a run of two or more newlines.
SepPos(s) ==
    {i \in 1..Len(s) :
        /\ s[i] = NL
        /\ \/ (i > 1 /\ s[i - 1] = NL)
           \/ (i < Len(s) /\ s[i + 1] = NL)}

\* The paragraphs of s as intervals <<a, b>> (empty when b = a - 1): the
\* maximal stretches free of separator positions, and the empty stretch
\* before a leading and after a trailing separator.
Paragraphs(s) ==
    {iv \in (1..(Len(s) + 1)) \X (0..Len(s)) :
        LET a == iv[1]
            b == iv[2]
        IN  /\ b >= a - 1
            /\ \A i \in a..b : i \notin SepPos(s)
            /\ a = 1 \/ (a - 1) \in SepPos(s)
            /\ b = Len(s) \/ (b + 1) \in SepPos(s)
            /\ b = a - 1 => (a = 1 \/ a = Len(s) + 1)}

\* s without its leading and trailing whitespace, by positions.
Trimmed(s) ==
    LET solid == {i \in 1..Len(s) : s[i] \notin Whitespace}
    IN  IF solid = {} THEN <<>> ELSE SubSeq(s, Min(solid), Max(solid))

ParagraphText(s, iv) == Trimmed(SubSeq(s, iv[1], iv[2]))

\* The paragraphs whose trimmed length is strictly greater than size.
LongParagraphs(s, size) ==
    {iv \in Paragraphs(s) : Len(ParagraphText(s, iv)) > size}

\* C1: chunk_text returns, in text order, exactly the trimmed paragraphs
\* (the stretches between runs of two or more newlines) whose trimmed length
\* is strictly greater than chunk_size: one chunk per such paragraph, and
\* none for a paragraph of trimmed length <= chunk_size.
C1_ChunksAreLongParagraphs ==
    chunk_pc = "done" =>
        LET long == LongParagraphs(text, chunk_size)
        IN  /\ Len(chunks) = Cardinality(long)
            /\ \A iv \in long :
                  chunks[1 + Cardinality({o \in long : o[1] < iv[1]})]
                      = ParagraphText(text, iv)
            /\ \A i \in 1..Len(chunks) : Len(chunks[i]) > chunk_size

\* A text with a paragraph of exactly chunk_size characters (dropped) and
\* a longer one (kept), chunked.
C1_Witness ==
    /\ chunk_pc = "done"
    /\ chunk_size = 1
    /\ text = <<"a", NL, NL, "a", "a">>
    /\ chunks = <<(<<"a", "a">>)>>

(***************************************************************************)
(* Claims about searching and answering, checked under SpecSearch          *)
(***************************************************************************)
\* A request of search_books or of the one-shot main is or was handled.
Searching == request.caller \in {"api", "cli"}

\* The invocations of search_index that have ended.
Returned == 1..Len(returns)

\* The calls search_index made on index, in order.
CallsOn(index) == SelectSeq(calls, LAMBDA c : c.index = index)

\* C3: for a positional query, whatever its text and the limit k, what
\* search_index returns for an index holds at most one document, and for an
\* index with documents exactly the one whose id is least among them.
C3_PositionalReturnsFirstById ==
    (Searching /\ \E x \in {FirstLine, Opening, Begin, Start} :
                      contains(lower(request.query), x))
        => \A i \in Returned :
              ~returns[i].raised =>
                  LET r == returns[i].results
                      docs == indexes[returns[i].index]
                  IN  /\ Len(r) <= 1
                      /\ docs # {} =>
                            /\ Len(r) = 1
                            /\ \E d \in docs : SelectFields(d) = r[1]
                            /\ \A d \in docs : r[1].id <= d.id

\* A positional query with k above 1 got one document from an index of two.
C3_Witness ==
    /\ request.caller = "api"
    /\ request.query = Restart
    /\ request.limit > 1
    /\ \E i \in Returned :
          /\ ~returns[i].raised
          /\ Cardinality(indexes[returns[i].index]) = 2
          /\ Len(returns[i].results) = 1

\* " - Chunk 1"
ChunkOne == <<" ", "-", " ", "C", "h", "u", "n", "k", " ", "1">>

\* C4: for the query "What is the opening line of Moby Dick?" every passage
\* handed to the chat completion is a document titled "... - Chunk 1", the
\* first chunk of its text, and the request carries the quoting instruction.
C4_OpeningLineGetsChunkOne ==
    (Searching /\ request.query = OpeningLineOfMobyDick)
        => \A i \in 1..Len(chat_calls) :
              /\ chat_calls[i].quote_first_line
              /\ \A g \in 1..Len(chat_calls[i].retrieved) :
                    endswith(chat_calls[i].retrieved[g].book, ChunkOne)

\* The opening-line query was answered from the populated Moby Dick index.
C4_Witness ==
    /\ Searching
    /\ request.query = OpeningLineOfMobyDick
    /\ chat_calls # <<>>
    /\ chat_calls[1].quote_first_line
    /\ \E g \in 1..Len(chat_calls[1].retrieved) :
          \E d \in indexes[ClassicMobyDick] :
              d.title = chat_calls[1].retrieved[g].book

\* C5: for a semantic query, every ended invocation of search_index began
\* with the semantic call; after a semantic call without results it made
\* exactly one more call, a plain search of the same text and the same k,
\* and after a semantic call with results or an error no other call; and it
\* returned nothing only after both calls had found nothing.
C5_KeywordRetryAfterEmptySemantic ==
    (Searching /\ ~\E x \in {FirstLine, Opening, Begin, Start} :
                      contains(lower(request.query), x))
        => \A i \in Returned :
              LET cs == CallsOn(returns[i].index)
              IN  /\ Len(cs) >= 1
                  /\ cs[1].call.query_type = "semantic"
                  /\ cs[1].call.search_text = request.query
                  /\ cs[1].call.top = K
                  /\ IF cs[1].result = "ok" /\ cs[1].found = 0
                     THEN /\ Len(cs) = 2
                          /\ cs[2].call.query_type = "simple"
                          /\ cs[2].call.order_by = ""
                          /\ cs[2].call.search_text = request.query
                          /\ cs[2].call.top = K
                     ELSE Len(cs) = 1
                  /\ (~returns[i].raised /\ returns[i].results = <<>>)
                        => /\ Len(cs) = 2
                           /\ cs[1].found = 0 /\ cs[2].found = 0

\* One index answered the semantic call, another only the keyword retry.
C5_Witness ==
    /\ Searching
    /\ Len(returns) = 2
    /\ Len(CallsOn(returns[1].index)) + Len(CallsOn(returns[2].index)) = 3
    /\ \A i \in Returned : ~returns[i].raised /\ returns[i].results # <<>>

\* C6: generate_rag_response called with an empty or whitespace-only query
\* and personality "storyteller" returns one of the four storyteller
\* greetings, whatever the contexts, and never calls the chat completion.
C6_BlankQueryGreets ==
    (/\ request.caller = "direct"
     /\ request.query \in {<<>>, Blanks}
     /\ request.personality = "storyteller")
        => /\ chat_calls = <<>>
           /\ pc = "done" =>
                 /\ response.kind = "returned"
                 /\ \E n \in 1..4 : response.text = greetings.storyteller[n]
                 /\ Len(greetings.storyteller) = 4

\* A whitespace-only query with contexts was answered by a greeting.
C6_Witness ==
    /\ request.caller = "direct"
    /\ request.query = Blanks
    /\ request.personality = "storyteller"
    /\ all_contexts # <<>>
    /\ pc = "done"
    /\ response.text = greetings.storyteller[3]

\* The book indexes of the service.
BookIndexes == {n \in DOMAIN indexes : startswith(n, ClassicPrefix)}

\* The available indexes whose name without "classic-" is in the
\* lower-cased query.
Mentioned ==
    {n \in BookIndexes :
        contains(lower(request.query), replace(n, ClassicPrefix, <<>>))}

\* The listing of the indexes failed: the request ended with an error
\* before any search or chat call.
ListingFailed ==
    pc = "done" /\ response.kind \in {"error", "exception"}
                /\ chat_calls = <<>>

\* C7: without an explicit index, once the indexes are listed the indexes
\* to search are all the book indexes of the service, unless the
\* lower-cased query contains the de-prefixed name of some of them: then
\* exactly one index, one of those the query names; and the indexes
\* searched are those and no other.
C7_IndexSelection ==
    (Searching /\ request.index_name = None /\ pc # "list"
               /\ ~ListingFailed)
        => /\ {available[i] : i \in 1..Len(available)} = BookIndexes
           /\ Len(available) = Cardinality(BookIndexes)
           /\ IF Mentioned = {} THEN active_indexes = available
              ELSE /\ Len(active_indexes) = 1
                   /\ active_indexes[1] \in Mentioned
           /\ Len(searched) <= Len(active_indexes)
           /\ \A i \in 1..Len(searched) : searched[i] = active_indexes[i]
           /\ pc \in {"generate", "done"} /\ response.kind # "no_indexes"
                 => searched = active_indexes

\* "Tell me about Frankenstein" with classic-frankenstein and
\* classic-moby-dick available searched classic-frankenstein only.
C7_Witness ==
    /\ Searching
    /\ request.index_name = None
    /\ request.query = AboutFrankenstein
    /\ BookIndexes = {ClassicFrankenstein, ClassicMobyDick}
    /\ pc = "done"
    /\ searched = <<ClassicFrankenstein>>

\* C10 as stated: when search_index raised for a target index of a
\* /search-books request, the response is the 500 error.
C10_SearchFailureIsServerError ==
    (/\ request.caller = "api"
     /\ pc = "done"
     /\ \E i \in Returned : returns[i].raised)
        => response.kind = "error" /\ response.status_code = 500

\* C10, amended: when search_index raised for a target index of a
\* /search-books request, the loop went on: every index to search was
\* searched, and the request ended as if that index had no results, with
\* the 200 "no relevant information" response when nothing was collected,
\* and otherwise with what the generation gave: the 200 answer carrying the
\* collected results, or the 500 error when the chat completion failed.
C10_SearchFailureIsLogged ==
    (/\ request.caller = "api"
     /\ pc = "done"
     /\ \E i \in Returned : returns[i].raised)
        => /\ Len(returns) = Len(active_indexes)
           /\ \A i \in Returned : returns[i].index = active_indexes[i]
           /\ IF all_contexts = <<>>
              THEN /\ response.kind = "empty"
                   /\ response.status_code = 200
                   /\ chat_calls = <<>>
              ELSE \/ /\ response.kind = "answer"
                      /\ response.status_code = 200
                      /\ response.results = all_contexts
                   \/ /\ response.kind = "error"
                      /\ response.status_code = 500
                      /\ chat_calls # <<>>

\* The search of one index raised first, and the request was still
\* answered with the results of another.
C10_Witness ==
    /\ request.caller = "api"
    /\ pc = "done"
    /\ Len(returns) = 2
    /\ returns[1].raised
    /\ response.kind = "answer"
    /\ response.status_code = 200
    /\ response.results # <<>>

\* The chat completion call of the request failed.
ChatFailed == \E i \in 1..Len(chat_calls) : chat_calls[i].result # "ok"

\* C11: when the chat completion call of a /search-books request fails,
\* contexts had been retrieved, the call was made once, and the response is
\* the 500 error carrying the exception text, with no results, no response
\* text and no list of indexes searched.
C11_ChatFailureIsServerError ==
    (request.caller = "api" /\ pc = "done" /\ ChatFailed)
        => /\ all_contexts # <<>>
           /\ Len(chat_calls) = 1
           /\ response.kind = "error"
           /\ response.status_code = 500
           /\ response.detail = chat_calls[1].result
           /\ response.results = <<>>
           /\ response.text = ""
           /\ response.indexes_searched = <<>>

\* Two indexes gave contexts and the chat completion failed.
C11_Witness ==
    /\ request.caller = "api"
    /\ pc = "done"
    /\ Len(all_contexts) >= 2
    /\ ChatFailed
    /\ response.status_code = 500

\* C12: a /search-books request whose searches collected no context ends
\* with the successful empty-result response, results [] and the message,
\* and without a chat completion call; and a chat completion call is made
\* only with at least one context.
C12_NoContextsIsEmptyResponse ==
    request.caller = "api"
        => /\ chat_calls # <<>> => all_contexts # <<>>
           /\ (pc = "done" /\ ~ListingFailed /\ all_contexts = <<>>)
                 => /\ response.kind = "empty"
                    /\ response.status_code = 200
                    /\ response.results = <<>>
                    /\ response.text =
                          "No relevant information found for your query."
                    /\ chat_calls = <<>>

\* Two indexes were searched, neither raised nor gave a document, and the
\* empty-result response was returned.
C12_Witness ==
    /\ request.caller = "api"
    /\ pc = "done"
    /\ Len(returns) = 2
    /\ \A i \in Returned : ~returns[i].raised /\ returns[i].results = <<>>
    /\ response.kind = "empty"

(***************************************************************************)
(* Claims about indexing, checked under Spec                               *)
(***************************************************************************)
\* The documents of the file task t reads that some index holds.
Committed(t) ==
    UNION {{d \in indexes[n] :
               d.filepath = Doc(tasks[t].file_path, 0, <<>>, 0).filepath} :
           n \in DOMAIN indexes}

\* Task t has failed before it had built the documents of all its chunks:
\* at create_index or at an embedding.
FailedBeforeUpload(t) ==
    /\ tasks[t].pc = "failed"
    /\ Len(tasks[t].items) < Len(ReadChunks(tasks[t].file_path))

\* In this step an embedding call of task t failed: the task was at an
\* embedding, has moved, and has no document more.
EmbeddingFailed(t) ==
    /\ tasks[t].pc = "embed"
    /\ tasks'[t] # tasks[t]
    /\ tasks'[t].items = tasks[t].items

\* C13: a failed embedding call ends the task as failed with that error,
\* leaving the service as it is; a task that failed before its upload has
\* no document in any index, the ones embedded before the failure
\* included, and it makes no further call: no upload and no other try.
C13_EmbeddingFailureAbortsBatch ==
    /\ [](\A t \in 1..Len(tasks) : FailedBeforeUpload(t) => Committed(t) = {})
    /\ [][\A t \in 1..Len(tasks) :
             /\ EmbeddingFailed(t) =>
                   /\ tasks'[t].pc = "failed"
                   /\ tasks'[t].error = "service_error"
                   /\ indexes' = indexes
             /\ FailedBeforeUpload(t) =>
                   /\ tasks'[t] = tasks[t]
                   /\ FailedBeforeUpload(t)']_vars

\* The embedding of the second chunk of "moby dick.txt" failed: the first
\* document was built, and the index, created, holds nothing.
C13_Witness ==
    \E t \in 1..Len(tasks) :
        /\ tasks[t].pc = "failed"
        /\ tasks[t].error = "service_error"
        /\ Len(tasks[t].items) = 1
        /\ Len(ReadChunks(tasks[t].file_path)) = 2
        /\ tasks[t].index_name \in DOMAIN indexes
        /\ indexes[tasks[t].index_name] = {}

\* Two tasks have indexed into the index called name and have ended with
\* no call failing on the service's side, and the outcome is one of a
\* race: a task has failed (its create found the index, its upload found
\* none), or the index holds documents of both.
RaceOutcome(name) ==
    /\ Cardinality(TasksOf(name)) = 2
    /\ \A t \in TasksOf(name) : tasks[t].pc \in Finished /\ NoServiceError(t)
    /\ \/ \E t \in TasksOf(name) : tasks[t].pc = "failed"
       \/ /\ name \in DOMAIN indexes
          /\ \A t \in TasksOf(name) :
                Range(tasks[t].items) \cap indexes[name] # {}

\* C14: two tasks for the same index name can race.  No execution in which
\* the tasks ran one after the other has the outcome of a race; C14_Witness
\* is an execution that has.
C14_RaceNeedsInterleaving ==
    \A name \in {tasks[t].index_name : t \in 1..Len(tasks)} :
        RaceOutcome(name) => overlapped

\* Both tasks have succeeded, no call failed, and the index holds the
\* documents of both uploads, of two different files.
C14_Witness ==
    /\ Len(tasks) = 2
    /\ tasks[1].index_name = tasks[2].index_name
    /\ FileOf(1) # FileOf(2)
    /\ RaceOutcome(tasks[1].index_name)
    /\ tasks[1].pc = "done" /\ tasks[2].pc = "done"
    /\ indexes[tasks[1].index_name]
          = Range(tasks[1].items) \cup Range(tasks[2].items)

\* C15: whatever its delete call did, succeed, find no index or fail, the
\* task goes on to its create call with no error; a delete that succeeded
\* has removed the index; and a create that succeeded has left the index
\* of that name empty, so that no document it held before is there when
\* the task uploads.
C15_DeleteIgnoredThenCreate ==
    [][\A t \in 1..Len(tasks) :
          /\ (tasks[t].pc = "delete" /\ tasks'[t] # tasks[t]) =>
                /\ tasks'[t].pc = "create"
                /\ tasks'[t].error = ""
                /\ tasks'[t].deleted \in {"ok", "not_found", "service_error"}
                /\ tasks'[t].deleted = "ok" =>
                      tasks[t].index_name \notin DOMAIN indexes'
                /\ tasks'[t].deleted # "ok" => indexes' = indexes
          /\ (tasks[t].pc = "create" /\ tasks'[t].pc \in {"embed", "upload"}) =>
                /\ tasks[t].index_name \notin DOMAIN indexes
                /\ indexes'[tasks[t].index_name] = {}]_vars

\* A task whose delete failed went on and succeeded; a second task then
\* deleted the populated index and created it again, empty.
C15_Witness ==
    /\ Len(tasks) = 2
    /\ tasks[1].index_name = tasks[2].index_name
    /\ tasks[1].deleted = "service_error"
    /\ tasks[1].pc = "done"
    /\ tasks[1].items # <<>>
    /\ tasks[2].deleted = "ok"
    /\ tasks[2].pc = "embed"
    /\ indexes[tasks[2].index_name] = {}

(***************************************************************************)
(* Claims about listing and classifying, checked under SpecSearch          *)
(***************************************************************************)
\* The positions of the listing l that hold a name starting "classic-".
BookPositions(l) == {i \in 1..Len(l) : startswith(l[i], ClassicPrefix)}

\* r is the listing l without the names that do not start "classic-": its
\* k-th name is the k-th name of l that does.
IsBookList(r, l) ==
    /\ Len(r) = Cardinality(BookPositions(l))
    /\ \A k \in 1..Len(r) :
          \E i \in BookPositions(l) :
              /\ Cardinality({j \in BookPositions(l) : j <= i}) = k
              /\ r[k] = l[i]

\* C16: what get_available_indexes returned to search_books or main, and
\* what GET /book-indexes answered, is the service's listing of all its
\* indexes with exactly the names not starting "classic-" left out, in the
\* listing's order.
C16_BookIndexesAreTheClassicOnes ==
    /\ Searching => IsBookList(available, listed)
    /\ (Searching /\ listed # <<>>) =>
          /\ Range(listed) = DOMAIN indexes
          /\ Range(available) = BookIndexes
    /\ (request.caller = "book_indexes" /\ pc = "done"
            /\ response.status_code = 200) =>
          /\ response.kind = "indexes"
          /\ Range(listed) = DOMAIN indexes
          /\ Len(listed) = Cardinality(DOMAIN indexes)
          /\ IsBookList(response.results, listed)
          /\ Range(response.results) = BookIndexes

\* GET /book-indexes when the service lists "books-emma" between the two
\* book indexes.
C16_Witness ==
    /\ request.caller = "book_indexes"
    /\ pc = "done"
    /\ listed = <<ClassicMobyDick, BooksEmma, ClassicFrankenstein>>
    /\ response.results = <<ClassicMobyDick, ClassicFrankenstein>>

\* The lower-cased query q contains one of the four keywords.
HasOpeningKeyword(q) ==
    \/ contains(lower(q), FirstLine)
    \/ contains(lower(q), Opening)
    \/ contains(lower(q), Begin)
    \/ contains(lower(q), Start)

\* C17: the first call of search_index for an index is the positional one
\* (empty text, top 1, ordered by id) if the lower-cased query contains
\* "first line", "opening", "begin" or "start", and the semantic one if it
\* does not; the chat completion request carries the quoting instruction in
\* exactly the same case; and the two tests agree on the query.
C17_KeywordsDecideModeAndQuoting ==
    /\ use_semantic_search(request.query) <=> ~asks_first_line(request.query)
    /\ Searching =>
          \A i \in 1..Len(searched) :
              LET first == CallsOn(searched[i])[1].call
              IN  IF HasOpeningKeyword(request.query)
                  THEN /\ first.order_by = "id asc"
                       /\ first.search_text = <<>>
                       /\ first.query_type = "simple"
                       /\ first.top = 1
                  ELSE /\ first.query_type = "semantic"
                       /\ first.order_by = ""
    /\ \A i \in 1..Len(chat_calls) :
          chat_calls[i].quote_first_line
              <=> HasOpeningKeyword(chat_calls[i].user_query)

\* The query "RESTART" was searched positionally and sent to the chat
\* completion with the quoting instruction.
C17_Witness ==
    /\ Searching
    /\ request.query = Restart
    /\ calls # <<>>
    /\ calls[1].call.order_by = "id asc"
    /\ chat_calls # <<>>
    /\ chat_calls[1].quote_first_line

(***************************************************************************)
(* C18, checked under Spec                                                 *)
(***************************************************************************)
\* Task t was added by an upload that named no index, has succeeded, and
\* its index is there.
IndexedUnderDefaultName(t) ==
    /\ Accepted[t].request.index_name = None
    /\ tasks[t].pc = "done"
    /\ tasks[t].index_name \in DOMAIN indexes

\* C18: the index of a succeeded upload that named no index is in what
\* get_available_indexes returns, however the service lists its indexes.
C18_UploadedIndexIsAvailable ==
    \A t \in 1..Len(tasks) :
        IndexedUnderDefaultName(t) =>
            \A listing \in Listings(indexes) :
                tasks[t].index_name \in Range(get_available_indexes(listing))

\* With AISEARCH_INDEX_NAME set to "classic", "Emma.txt" uploaded with no
\* index name has been indexed as "classic-emma", a book index.
C18_Witness ==
    /\ environ # <<>>
    /\ \E t \in 1..Len(tasks) :
          /\ IndexedUnderDefaultName(t)
          /\ FileOf(t) = EmmaTxt
          /\ \A listing \in Listings(indexes) :
                tasks[t].index_name \in Range(get_available_indexes(listing))

\* C20: for a query with an opening keyword search_index makes one call
\* for an index and returns what that call gave, nothing when the index is
\* empty: it is never at the keyword search; and a keyword search (a plain
\* search without order) is only ever made for a query without keyword.
C20_PositionalNeverFallsBack ==
    Searching =>
        /\ HasOpeningKeyword(request.query) =>
              /\ pc # "fallback"
              /\ \A i \in Returned :
                    /\ Len(CallsOn(returns[i].index)) = 1
                    /\ CallsOn(returns[i].index)[1].call.order_by = "id asc"
                    /\ ~returns[i].raised =>
                          Len(returns[i].results)
                              = CallsOn(returns[i].index)[1].found
        /\ \A i \in 1..Len(calls) :
              (calls[i].call.query_type = "simple"
                  /\ calls[i].call.order_by = "")
                  => ~HasOpeningKeyword(request.query)

\* A positional search of the empty index classic-frankenstein returned
\* the empty list after one call.
C20_Witness ==
    /\ Searching
    /\ request.query = Restart
    /\ \E i \in Returned :
          /\ returns[i].index = ClassicFrankenstein
          /\ indexes[ClassicFrankenstein] = {}
          /\ ~returns[i].raised
          /\ returns[i].results = <<>>
          /\ Len(CallsOn(ClassicFrankenstein)) = 1

(***************************************************************************)
(* C19, checked under SpecCli                                              *)
(***************************************************************************)
\* C19: in an interactive session the active indexes are always among the
\* indexes listed at the start, names that are not among them having been
\* left out of a selection; every index a query searches is an active one;
\* and the loop has ended only after reading "exit" or "quit".
C19_SessionSearchesActiveIndexes ==
    request.caller = "interactive" =>
        /\ Range(active_indexes) \subseteq Range(available)
        /\ Range(available) \subseteq Range(listed)
        /\ Range(target_indexes) \subseteq Range(active_indexes)
        /\ Range(searched) \subseteq Range(active_indexes)
        /\ pc = "ended" =>
              /\ inputs # <<>>
              /\ lower(inputs[Len(inputs)]) \in {Exit, Quit}

\* After the selection "classic-moby-dick , classic-dracula" the active
\* index is classic-moby-dick alone, and "who is ahab" searched it alone.
C19_Witness ==
    /\ request.caller = "interactive"
    /\ inputs = <<IndexesCommand, SelectMobyDickAndUnknown, WhoIsAhab>>
    /\ Range(available) = {ClassicMobyDick, ClassicFrankenstein}
    /\ active_indexes = <<ClassicMobyDick>>
    /\ searched = <<ClassicMobyDick>>
    /\ pc = "input"

====
